---------------------------- MODULE Spec2Model ----------------------------
(***************************************************************************)
(* A model of mem-rs: the byte-pattern scanner (helpers.rs), the pointer   *)
(* chain resolver (pointer.rs) and the attachment life cycle of Process    *)
(* (process/refresh.rs, process/scanning.rs).                              *)
(*                                                                         *)
(* Rust values are modelled as follows.                                    *)
(*   Option<T>      records  [kind |-> "None"] / [kind |-> "Some", val]    *)
(*   a panic        the record [kind |-> "panic"]                          *)
(*   &[u8], Vec<T>  sequences; index i of the code is index i + 1 here     *)
(*   usize, u32     naturals below UsizeMod, U32Mod.  A byte of target     *)
(*                  memory carries ByteBits bits instead of 8, so that a   *)
(*                  word of 4 or 8 bytes stays inside TLC's integers; the  *)
(*                  number of bytes of every word is the program's.        *)
(***************************************************************************)
EXTENDS Integers, Sequences, FiniteSets, TLC

VARIABLES
    overflow_checks,  \* the build profile: TRUE = overflow checks on (debug)
    haystack,         \* scan: the bytes searched
    needle,           \* scan: the pattern, a sequence of Option<u8>
    scan_ret,         \* scan: what the call returned, RPending before it
    sig,              \* to_pattern: the signature text, a sequence of characters
    pattern_ret,      \* to_pattern: what the call returned, RPending before it
    partial_copy,     \* the OS: TRUE = a faulting ReadProcessMemory leaves the
                      \* readable prefix in the buffer, FALSE = it copies nothing
    procs,            \* the OS: the process table, by pid
    mem,              \* the OS: each process's mapped memory, address -> byte
    handles,          \* the OS: the open process handles, handle -> pid (0 = closed)
    process_data,     \* Process: the shared ProcessData (Rc<RefCell<..>>)
    main_module,      \* Process: main_module, Option<ProcessModule>
    pointer,          \* the Pointer the caller holds
    ret,              \* what the last call of the caller returned
    ds1               \* the example's Ds1: its two Pointers and what its last
                      \* refresh returned

vars == <<overflow_checks, haystack, needle, scan_ret, sig, pattern_ret,
          partial_copy, procs, mem, handles, process_data, main_module,
          pointer, ret, ds1>>

scanVars == <<haystack, needle, scan_ret>>
patVars == <<sig, pattern_ret>>
osVars == <<partial_copy, procs, mem, handles>>
procVars == <<process_data, main_module>>
allProcVars == <<osVars, procVars, pointer, ret>>

---------------------------------------------------------------------------
(* Bounds of the model. *)

\* bits of one byte of target memory and of one machine word's byte
ByteBits == 2
\* longest haystack handed to scan
MaxHay == 3
\* longest pattern handed to scan
MaxPat == 3
\* longest signature text handed to to_pattern
MaxSig == 4
\* process handles the OS can have open at once
MaxHandles == 3
\* most offsets a Pointer is created with
MaxOffsets == 2

(* Program constants. *)

\* bytes of a usize / of a 64-bit pointer read
UsizeBytes == 8
\* bytes of a u32 / of a 32-bit pointer read
U32Bytes == 4

ByteMod == 2 ^ ByteBits
UsizeMod == ByteMod ^ UsizeBytes
U32Mod == ByteMod ^ U32Bytes

---------------------------------------------------------------------------
(* Option, Result and panic values. *)

RNone == [kind |-> "None", val |-> 0]
RSome(x) == [kind |-> "Some", val |-> x]
RPanic == [kind |-> "panic", val |-> 0]
RPending == [kind |-> "pending", val |-> 0]

SeqsUpTo(S, n) == UNION {[1..k -> S] : k \in 0..n}

---------------------------------------------------------------------------
(* process_data/mod.rs, process/mod.rs, pointer.rs: the objects. *)

\* the executable name handed to Process::new
TargetName == "game.exe"

\* HANDLE::default()
NullHandle == 0

\* Process::new: the ProcessData of a Process that was never attached.  A path
\* is the sequence of its components, String::new() the empty one.
ProcessDataNew ==
    [name |-> TargetName, attached |-> FALSE, id |-> 0, handle |-> NullHandle,
     is_64_bit |-> TRUE, filename |-> "", path |-> <<>>]

\* Pointer::default(): a Pointer over a ProcessData of its own (handle 0).
PointerDefault ==
    [process_data |-> "default", is_64_bit |-> TRUE, base_address |-> 0,
     offsets |-> <<>>]

\* Pointer::new over the Process's shared ProcessData.
PointerNew(is_64_bit, base_address, offsets) ==
    [process_data |-> "shared", is_64_bit |-> is_64_bit,
     base_address |-> base_address, offsets |-> offsets]

---------------------------------------------------------------------------
(* The operating system, as far as the library calls it. *)

Pids == {1, 2}
Handles == 1..MaxHandles

\* A process: its state, the path of its executable, whether it runs under
\* WOW64 and its modules (base address and image size) in enumeration order.
AbsentProc == [state |-> "absent", path |-> <<>>, wow64 |-> FALSE, modules |-> <<>>]
NoMemory == [a \in {} |-> 0]

\* The process a handle stands for, 0 for a value that is no open handle.
HandlePid(h) == IF h \in Handles THEN handles[h] ELSE 0

\* The memory of process pid as another process can read it: that of a
\* process still running (pid 0 stands for no process).
ProcessMemory(pid) ==
    IF pid # 0 /\ procs[pid].state = "running" THEN mem[pid] ELSE NoMemory

\* How many of the n bytes from address on are mapped, counted from the start.
ReadablePrefix(m, address, n) ==
    CHOOSE k \in 0..n :
        /\ \A j \in 0..(k - 1) : (address + j) \in DOMAIN m
        /\ k = n \/ (address + k) \notin DOMAIN m

\* ReadProcessMemory(handle, address, buffer, n, &read_bytes) on a handle of
\* process pid: is_err, the number of bytes transferred and the buffer
\* afterwards (zero where nothing was transferred: every caller hands in a
\* zeroed buffer).
ReadProcessMemoryOf(pid, address, n) ==
    LET m == ProcessMemory(pid)
        valid == pid # 0 /\ procs[pid].state = "running"
        avail == ReadablePrefix(m, address, n)
        copied == IF ~valid THEN 0
                  ELSE IF avail = n THEN n
                  ELSE IF partial_copy THEN avail ELSE 0
    IN  [is_err |-> ~(valid /\ avail = n),
         read_bytes |-> copied,
         buffer |-> [j \in 1..n |-> IF j <= copied THEN m[address + j - 1] ELSE 0]]

\* ReadProcessMemory on a handle value of the caller.
ReadProcessMemory(h, address, n) == ReadProcessMemoryOf(HandlePid(h), address, n)

\* WriteProcessMemory(handle, address, buffer, n, &wrote_bytes) on a handle of
\* process pid: is_err, the number of bytes transferred and the memory of the
\* process afterwards.
WriteProcessMemoryOf(pid, address, buffer) ==
    LET m == ProcessMemory(pid)
        n == Len(buffer)
        valid == pid # 0 /\ procs[pid].state = "running"
        avail == ReadablePrefix(m, address, n)
        copied == IF ~valid THEN 0
                  ELSE IF avail = n THEN n
                  ELSE IF partial_copy THEN avail ELSE 0
    IN  [is_err |-> ~(valid /\ avail = n),
         wrote_bytes |-> copied,
         memory |-> [a \in DOMAIN m |->
                       IF a >= address /\ a < address + copied
                       THEN buffer[a - address + 1] ELSE m[a]]]

\* WriteProcessMemory on a handle value of the caller.
WriteProcessMemory(h, address, buffer) ==
    WriteProcessMemoryOf(HandlePid(h), address, buffer)

\* Ds1::new(): two default Pointers; attachment is the handle of the
\* attachment whose snapshot the Pointer was scanned from, 0 for none.
Ds1New ==
    [game_data_man |-> [pointer |-> PointerDefault, attachment |-> NullHandle],
     ai_timer |-> [pointer |-> PointerDefault, attachment |-> NullHandle],
     result |-> "pending"]

InitDetached ==
    /\ ds1 = Ds1New
    /\ procs = [p \in Pids |-> AbsentProc]
    /\ mem = [p \in Pids |-> NoMemory]
    /\ handles = [h \in Handles |-> 0]
    /\ process_data = ProcessDataNew
    /\ main_module = RNone
    /\ pointer = PointerDefault
    /\ ret = RPending

InitNoProcess ==
    /\ partial_copy = FALSE
    /\ InitDetached

---------------------------------------------------------------------------
(* helpers.rs: scan *)

\* The inner loop `for j in 0..needle.len()` at candidate index i: "found",
\* "mismatch" (found = false; break) or "panic" (haystack[i + j] out of bounds).
\* A wildcard position does not index the haystack.
RECURSIVE needle_loop(_, _, _, _)
needle_loop(H, P, i, j) ==
    IF j >= Len(P) THEN "found"
    ELSE IF P[j + 1].kind = "Some"
         THEN IF i + j >= Len(H) THEN "panic"
              ELSE IF P[j + 1].val # H[i + j + 1] THEN "mismatch"
              ELSE needle_loop(H, P, i, j + 1)
         ELSE needle_loop(H, P, i, j + 1)

\* The outer loop `for i in 0..end`, end exclusive.
RECURSIVE haystack_loop(_, _, _, _)
haystack_loop(H, P, i, end) ==
    IF i >= end THEN RNone
    ELSE LET r == needle_loop(H, P, i, 0)
         IN  IF r = "panic" THEN RPanic
             ELSE IF r = "found" THEN RSome(i)
             ELSE haystack_loop(H, P, i + 1, end)

\* `haystack.len() - needle.len()` in usize: with overflow checks the
\* subtraction panics when it underflows, without them it wraps.
scan_end(hlen, nlen) ==
    IF nlen > hlen
    THEN IF overflow_checks THEN RPanic ELSE RSome(UsizeMod + hlen - nlen)
    ELSE RSome(hlen - nlen)

scan(H, P) ==
    IF Len(H) = 0 THEN RNone
    ELSE LET end == scan_end(Len(H), Len(P))
         IN  IF end.kind = "panic" THEN RPanic
             ELSE haystack_loop(H, P, 0, end.val)

---------------------------------------------------------------------------
(* The scanner on its own: every haystack and pattern within the bounds. *)

ScanBytes == {0, 1}
ScanTokens == {RNone} \cup {RSome(b) : b \in ScanBytes}

InitOther ==
    /\ sig = <<>>
    /\ pattern_ret = RPending
    /\ InitNoProcess

InitScan ==
    /\ overflow_checks \in BOOLEAN
    /\ haystack \in SeqsUpTo(ScanBytes, MaxHay)
    /\ needle \in SeqsUpTo(ScanTokens, MaxPat)
    /\ scan_ret = RPending
    /\ InitOther

CallScan ==
    /\ scan_ret = RPending
    /\ scan_ret' = scan(haystack, needle)
    /\ UNCHANGED <<overflow_checks, ds1, haystack, needle, patVars, allProcVars>>

NextScan == CallScan

SpecScan == InitScan /\ [][NextScan]_vars

\* Index i (0-based) is a full match of P in H: the pattern fits and every
\* exact position is equal.
FullMatch(H, P, i) ==
    /\ i + Len(P) <= Len(H)
    /\ \A j \in 1..Len(P) : P[j].kind = "Some" => P[j].val = H[i + j]

MatchIndices(H, P) == {i \in 0..Len(H) : FullMatch(H, P, i)}

LeastOf(S) == CHOOSE x \in S : \A y \in S : x <= y

\* C1: for 1 <= |P| <= |H|, when P matches H somewhere scan returns Some(k),
\* k the least matching index, also when the match ends at the last byte of H.
C1_ScanReturnsLeastMatch ==
    (/\ scan_ret # RPending
     /\ 1 <= Len(needle) /\ Len(needle) <= Len(haystack)
     /\ MatchIndices(haystack, needle) # {})
        => scan_ret = RSome(LeastOf(MatchIndices(haystack, needle)))

\* C2: with no full match scan returns None (so for an empty haystack), and a
\* returned Some(i) is a full match that fits inside the haystack.
C2_ScanSoundness ==
    scan_ret # RPending =>
        /\ MatchIndices(haystack, needle) = {} => scan_ret = RNone
        /\ Len(haystack) = 0 => scan_ret = RNone
        /\ scan_ret.kind = "Some" => FullMatch(haystack, needle, scan_ret.val)
        /\ scan_ret.kind \in {"None", "Some"}

\* C3: a pattern longer than a non-empty haystack yields None, with no panic.
C3_LongPatternIsNotFound ==
    (/\ scan_ret # RPending
     /\ Len(haystack) >= 1
     /\ Len(needle) > Len(haystack))
        => scan_ret = RNone


---------------------------------------------------------------------------
(* helpers.rs: to_pattern.  A &str is a sequence of one-character strings. *)

\* largest u8
U8Max == 255
\* the radix handed to u8::from_str_radix
HexRadix == 16

ROk(x) == [kind |-> "Ok", val |-> x]
RErr(x) == [kind |-> "Err", val |-> x]

LowerHex == <<"0", "1", "2", "3", "4", "5", "6", "7", "8", "9",
              "a", "b", "c", "d", "e", "f">>
UpperHex == <<"0", "1", "2", "3", "4", "5", "6", "7", "8", "9",
              "A", "B", "C", "D", "E", "F">>

\* char::to_digit(16): the digit's value, -1 for a character that is none.
to_digit(c) ==
    IF \E k \in 1..HexRadix : LowerHex[k] = c
    THEN (CHOOSE k \in 1..HexRadix : LowerHex[k] = c) - 1
    ELSE IF \E k \in 1..HexRadix : UpperHex[k] = c
    THEN (CHOOSE k \in 1..HexRadix : UpperHex[k] = c) - 1
    ELSE -1

\* The digit loop of from_str_radix: checked multiply-and-add into a u8.
RECURSIVE digits_loop(_, _, _)
digits_loop(digits, i, acc) ==
    IF i > Len(digits) THEN ROk(acc)
    ELSE LET x == to_digit(digits[i])
         IN  IF x < 0 THEN RErr("InvalidDigit")
             ELSE IF acc * HexRadix + x > U8Max THEN RErr("PosOverflow")
             ELSE digits_loop(digits, i + 1, acc * HexRadix + x)

\* A mutant of from_str_radix: no sign is accepted, "+" is an invalid digit.
from_str_radix_unsigned_only(src) ==
    IF Len(src) = 0 THEN RErr("Empty")
    ELSE digits_loop(src, 1, 0)

\* u8::from_str_radix(src, 16), as called by to_pattern: an empty string and a
\* lone sign are errors, one leading "+" is dropped, "-" is no sign of an
\* unsigned type and is read as a digit.
from_str_radix(src) ==
    IF Len(src) = 0 THEN RErr("Empty")
    ELSE IF src[1] \in {"+", "-"} /\ Len(src) = 1 THEN RErr("InvalidDigit")
    ELSE IF src[1] = "+" THEN digits_loop(Tail(src), 1, 0)
    ELSE digits_loop(src, 1, 0)

\* str.split(" "): the pieces between single spaces, empty pieces included;
\* the empty string splits into one empty piece.
RECURSIVE split_loop(_, _, _)
split_loop(s, i, cur) ==
    IF i > Len(s) THEN <<cur>>
    ELSE IF s[i] = " " THEN <<cur>> \o split_loop(s, i + 1, <<>>)
    ELSE split_loop(s, i + 1, Append(cur, s[i]))

split(s) == split_loop(s, 1, <<>>)

\* The loop of to_pattern over the pieces; `expect` panics on a parse error.
RECURSIVE to_pattern_loop(_, _, _)
to_pattern_loop(tokens, i, vec) ==
    IF i > Len(tokens) THEN ROk(vec)
    ELSE IF tokens[i] = <<"?">>
    THEN to_pattern_loop(tokens, i + 1, Append(vec, RNone))
    ELSE LET r == from_str_radix(tokens[i])
         IN  IF r.kind = "Err" THEN RPanic
             ELSE to_pattern_loop(tokens, i + 1, Append(vec, RSome(r.val)))

to_pattern(str) == to_pattern_loop(split(str), 1, <<>>)

---------------------------------------------------------------------------
(* to_pattern on its own: every signature text within the bounds. *)

SigChars == {" ", "?", "+", "-", "0", "5", "f", "g"}

InitPattern ==
    /\ overflow_checks \in BOOLEAN
    /\ haystack = <<>> /\ needle = <<>> /\ scan_ret = RPending
    /\ sig \in SeqsUpTo(SigChars, MaxSig)
    /\ pattern_ret = RPending
    /\ InitNoProcess

CallToPattern ==
    /\ pattern_ret = RPending
    /\ pattern_ret' = to_pattern(sig)
    /\ UNCHANGED <<overflow_checks, ds1, scanVars, sig, allProcVars>>

NextPattern == CallToPattern

SpecPattern == InitPattern /\ [][NextPattern]_vars

\* The tokens of a text, as pairs <<a, b>> of the first and last position
\* (b = a - 1 for an empty token): maximal pieces free of spaces.
TokenSpans(s) ==
    {ab \in (1..Len(s) + 1) \X (0..Len(s)) :
        /\ ab[2] >= ab[1] - 1
        /\ ab[1] = 1 \/ s[ab[1] - 1] = " "
        /\ ab[2] = Len(s) \/ s[ab[2] + 1] = " "
        /\ \A k \in ab[1]..ab[2] : s[k] # " "}

TokenText(s, ab) == SubSeq(s, ab[1], ab[2])

IsHexChar(c) ==
    c \in {"0", "1", "2", "3", "4", "5", "6", "7", "8", "9", "a", "b", "c", "d",
           "e", "f", "A", "B", "C", "D", "E", "F"}

\* The token the specification allows: `?` or exactly two hex digits.
StrictToken(t) ==
    \/ t = <<"?">>
    \/ Len(t) = 2 /\ \A k \in 1..2 : IsHexChar(t[k])

\* The token the code accepts: `?`, or an optional "+" and then one or more
\* hex digits of which at most the last two are not "0".
LenientToken(t) ==
    \/ t = <<"?">>
    \/ LET d == IF Len(t) >= 1 /\ t[1] = "+" THEN Tail(t) ELSE t
       IN  /\ Len(d) >= 1
           /\ \A k \in 1..Len(d) : IsHexChar(d[k])
           /\ \A k \in 1..Len(d) : k <= Len(d) - 2 => d[k] = "0"

\* The tokens of a text that lie before position a.
TokensBefore(s, a) == Cardinality({ab \in TokenSpans(s) : ab[1] < a})

\* C4 as stated: a signature is accepted only if every token is `?` or exactly
\* two hex digits.
C4_OnlyStrictTokensAccepted ==
    pattern_ret.kind = "Ok" =>
        \A ab \in TokenSpans(sig) : StrictToken(TokenText(sig, ab))

\* C4, amended: a signature is accepted exactly if every token is `?` or an
\* optional "+" followed by hex digits of value at most 255; the pattern then
\* has one element per token, a wildcard exactly for the `?` tokens.
C4_LenientTokensAccepted ==
    pattern_ret # RPending =>
        /\ pattern_ret.kind \in {"Ok", "panic"}
        /\ pattern_ret.kind = "Ok" <=>
               \A ab \in TokenSpans(sig) : LenientToken(TokenText(sig, ab))
        /\ pattern_ret.kind = "Ok" =>
               /\ Len(pattern_ret.val) = Cardinality(TokenSpans(sig))
               /\ \A ab \in TokenSpans(sig) :
                      (pattern_ret.val[TokensBefore(sig, ab[1]) + 1].kind = "None")
                          <=> TokenText(sig, ab) = <<"?">>

\* A signature with a sign-prefixed one-digit token was accepted.
C4_Witness ==
    /\ pattern_ret.kind = "Ok"
    /\ \E ab \in TokenSpans(sig) : TokenText(sig, ab) = <<"+", "5">>

---------------------------------------------------------------------------
(* read_write.rs, pointer.rs: raw and typed access, pointer resolution. *)

RECURSIVE from_ne_bytes(_)
\* uN::from_ne_bytes on a little-endian host: buffer[0] is the lowest byte.
from_ne_bytes(buffer) ==
    IF Len(buffer) = 0 THEN 0
    ELSE buffer[1] + ByteMod * from_ne_bytes(Tail(buffer))

\* A mutant of to_ne_bytes: the highest byte comes first.
to_be_bytes(v, n) == [k \in 1..n |-> (v \div (ByteMod ^ (n - k))) % ByteMod]

\* uN::to_ne_bytes for a word of n bytes.
to_ne_bytes(v, n) == [k \in 1..n |-> (v \div (ByteMod ^ (k - 1))) % ByteMod]

\* BaseReadWrite::read_with_handle: true only for a complete transfer; the
\* caller's zeroed buffer holds whatever was transferred.
read_with_handle(handle, address, n) ==
    LET r == ReadProcessMemory(handle, address, n)
    IN  [ok |-> ~r.is_err /\ r.read_bytes = n, buffer |-> r.buffer]

\* A mutant of PointerHandle: the handle value of the first attachment, as
\* if copied into the Pointer.
PointerHandle_copied(p) ==
    IF p.process_data = "shared" THEN 1 ELSE NullHandle

\* self.process_data.borrow().handle of a Pointer.
PointerHandle(p) ==
    IF p.process_data = "shared" THEN process_data.handle ELSE NullHandle

\* Pointer::read_memory_abs
Pointer_read_memory_abs(p, address, n) ==
    read_with_handle(PointerHandle(p), address, n)

\* usize `+`: panics on overflow with overflow checks, wraps without.
usize_add(a, b) ==
    IF a + b >= UsizeMod
    THEN IF overflow_checks THEN RPanic ELSE RSome((a + b) % UsizeMod)
    ELSE RSome(a + b)

\* The bytes read at a non-terminal link: 8 if is_64_bit, else 4.
link_width(p) == IF p.is_64_bit THEN UsizeBytes ELSE U32Bytes

\* A mutant of is_null_link: the walk goes on from a null link.
is_null_link_never(ptr) == FALSE

\* `if ptr == 0 { return 0; }`
is_null_link(ptr) == ptr = 0

\* A mutant of is_last_offset: the last offset is dereferenced as well.
is_last_offset_never(i, len) == FALSE

\* The else branch of `if i + 1 < offsets.len()`.
is_last_offset(i, len) == ~(i + 1 < len)

\* The loop of Pointer::resolve_offsets from index i (0-based) on; reads is
\* the log of the dereferences made so far, in order.
RECURSIVE resolve_loop(_, _, _, _, _)
resolve_loop(p, offsets, i, ptr, reads) ==
    IF i >= Len(offsets) THEN [kind |-> "Ok", val |-> ptr, reads |-> reads]
    ELSE LET address == usize_add(ptr, offsets[i + 1])
         IN  IF address.kind = "panic"
             THEN [kind |-> "panic", val |-> 0, reads |-> reads]
             ELSE IF ~is_last_offset(i, Len(offsets))
             THEN LET r == Pointer_read_memory_abs(p, address.val, link_width(p))
                      next == from_ne_bytes(r.buffer)
                      log == Append(reads, [address |-> address.val,
                                            len |-> link_width(p),
                                            ok |-> r.ok, value |-> next])
                  IN  IF is_null_link(next)
                      THEN [kind |-> "Ok", val |-> 0, reads |-> log]
                      ELSE resolve_loop(p, offsets, i + 1, next, log)
             ELSE resolve_loop(p, offsets, i + 1, address.val, reads)

\* Pointer::resolve_offsets
resolve_offsets(p, offsets) == resolve_loop(p, offsets, 0, p.base_address, <<>>)

\* A mutant of effective_offsets: the optional offset is dropped.
effective_offsets_without_offset(p, offset) == p.offsets

\* The copy of the stored offsets with the optional offset pushed.
effective_offsets(p, offset) ==
    IF offset.kind = "Some" THEN Append(p.offsets, offset.val) ELSE p.offsets

\* Pointer::read_memory_rel into a zeroed buffer of n bytes.
Pointer_read_memory_rel(p, offset, n) ==
    LET res == resolve_offsets(p, effective_offsets(p, offset))
        r == read_with_handle(PointerHandle(p), res.val, n)
    IN  IF res.kind = "panic"
        THEN [kind |-> "panic", address |-> 0, reads |-> res.reads,
              ok |-> FALSE, buffer |-> [j \in 1..n |-> 0]]
        ELSE [kind |-> "Ok", address |-> res.val, reads |-> res.reads,
              ok |-> r.ok, buffer |-> r.buffer]

\* A mutant of write_with_handle: the result of WriteProcessMemory and the
\* number of bytes written are not looked at.
write_with_handle_unchecked(handle, address, buffer) ==
    [ok |-> TRUE, memory |-> WriteProcessMemory(handle, address, buffer).memory]

\* BaseReadWrite::write_with_handle: true only for a complete transfer;
\* memory is the target's memory afterwards.
write_with_handle(handle, address, buffer) ==
    LET w == WriteProcessMemory(handle, address, buffer)
    IN  [ok |-> ~w.is_err /\ w.wrote_bytes = Len(buffer), memory |-> w.memory]

\* Pointer::write_memory_rel
Pointer_write_memory_rel(p, offset, buffer) ==
    LET res == resolve_offsets(p, effective_offsets(p, offset))
        w == write_with_handle(PointerHandle(p), res.val, buffer)
    IN  IF res.kind = "panic"
        THEN [kind |-> "panic", address |-> 0, reads |-> res.reads,
              ok |-> FALSE, memory |-> ProcessMemory(HandlePid(PointerHandle(p)))]
        ELSE [kind |-> "Ok", address |-> res.val, reads |-> res.reads,
              ok |-> w.ok, memory |-> w.memory]

\* ReadWrite::read_T_rel for the integer and float types, as the bit pattern
\* of the value: T::from_ne_bytes of the buffer, whatever read_memory_rel
\* returned.
typed_read(r) == from_ne_bytes(r.buffer)

\* ReadWrite::read_bool_rel
read_bool(r) == r.buffer[1] # 0

---------------------------------------------------------------------------
(* The pointer on its own: a Process attached to a target whose memory     *)
(* holds two pointer-sized slots; the caller creates Pointers and reads    *)
(* through them while the target rewrites its slots.                       *)

SlotA == 2 * UsizeBytes
SlotB == 4 * UsizeBytes

\* what the target stores in slot A: null, the address of slot B, a word whose
\* low half is that address and whose high half is not zero, the all-ones word
SlotAValues == {0, SlotB, U32Mod + SlotB, UsizeMod - 1}
\* what the target stores in slot B: null, the address of slot A
SlotBValues == {0, SlotA}

PointerBases == {SlotA}
PointerOffsets == {0, 4, SlotB - SlotA}
ReadOffsets == {RNone, RSome(0)}

\* The memory with the two slots holding a and b.
SlotMemory(a, b) ==
    [x \in (SlotA..(SlotA + UsizeBytes - 1)) \cup (SlotB..(SlotB + UsizeBytes - 1)) |->
        IF x < SlotB THEN to_ne_bytes(a, UsizeBytes)[x - SlotA + 1]
        ELSE to_ne_bytes(b, UsizeBytes)[x - SlotB + 1]]

\* A Process attached to a running target whose slots hold values of A and B.
InitAttached(A, B) ==
    /\ overflow_checks \in BOOLEAN
    /\ haystack = <<>> /\ needle = <<>> /\ scan_ret = RPending
    /\ sig = <<>> /\ pattern_ret = RPending
    /\ partial_copy \in BOOLEAN
    /\ \E wow64 \in BOOLEAN, a \in A, b \in B :
        /\ procs = [p \in Pids |->
                      IF p = 1
                      THEN [state |-> "running", path |-> <<"C:", TargetName>>,
                            wow64 |-> wow64,
                            modules |-> <<[base_address |-> SlotA, size |-> UsizeBytes]>>]
                      ELSE AbsentProc]
        /\ mem = [p \in Pids |-> IF p = 1 THEN SlotMemory(a, b) ELSE NoMemory]
        /\ process_data = [name |-> TargetName, attached |-> TRUE, id |-> 1,
                           handle |-> 1, is_64_bit |-> ~wow64,
                           filename |-> TargetName, path |-> <<"C:", TargetName>>]
        /\ main_module = RSome([base_address |-> SlotA, size |-> UsizeBytes,
                                memory |-> to_ne_bytes(a, UsizeBytes)])
    /\ handles = [h \in Handles |-> IF h = 1 THEN 1 ELSE 0]
    /\ pointer = PointerDefault
    /\ ret = RPending
    /\ ds1 = Ds1New

InitPointer == InitAttached(SlotAValues, SlotBValues)

\* Process::create_pointer(address, pointer_offsets); the caller creates the
\* one Pointer it holds once.
CreatePointer(address, pointer_offsets) ==
    /\ ret.kind # "panic"
    /\ pointer = PointerDefault
    /\ pointer' = PointerNew(process_data.is_64_bit, address, pointer_offsets)
    /\ ret' = [kind |-> "Ok", op |-> "create_pointer"]
    /\ UNCHANGED <<overflow_checks, ds1, scanVars, patVars, osVars, procVars>>

\* The address the read before the target's last store resolved to, when that
\* read was made with the same optional offset; -1 otherwise.
PreviousAddress(offset) ==
    IF ret.kind = "Ok" /\ ret.op = "target_store"
    THEN IF ret.offset = offset THEN ret.address ELSE -1
    ELSE -1

\* pointer.read_u32_rel(offset): read_memory_rel into [0; 4], then
\* u32::from_ne_bytes, whatever read_memory_rel returned.
PointerReadU32Rel(offset) ==
    /\ ret.kind # "panic"
    /\ LET r == Pointer_read_memory_rel(pointer, offset, U32Bytes)
       IN  ret' = [kind |-> r.kind, op |-> "read_u32_rel", offset |-> offset,
                   address |-> r.address, reads |-> r.reads, ok |-> r.ok,
                   value |-> from_ne_bytes(r.buffer),
                   previous |-> PreviousAddress(offset)]
    /\ UNCHANGED <<overflow_checks, ds1, scanVars, patVars, osVars, procVars, pointer>>

\* The target process stores the word v in slot A between two reads of the
\* caller (the memory before the first read is any of the initial ones).  Of
\* the last read only the optional offset and the resolved address are
\* remembered.
TargetStore(slot, v) ==
    /\ ret.kind = "Ok" /\ ret.op = "read_u32_rel"
    /\ procs[1].state = "running"
    /\ mem' = [mem EXCEPT ![1] =
                 [x \in DOMAIN mem[1] |->
                    IF x \in slot..(slot + UsizeBytes - 1)
                    THEN to_ne_bytes(v, UsizeBytes)[x - slot + 1]
                    ELSE mem[1][x]]]
    /\ ret' = [kind |-> "Ok", op |-> "target_store", offset |-> ret.offset,
               address |-> ret.address]
    /\ UNCHANGED <<overflow_checks, ds1, scanVars, patVars, partial_copy, procs, handles,
                   procVars, pointer>>

NextPointer ==
    \/ \E a \in PointerBases, o \in SeqsUpTo(PointerOffsets, MaxOffsets) :
           CreatePointer(a, o)
    \/ \E o \in ReadOffsets : PointerReadU32Rel(o)
    \/ \E v \in SlotAValues : TargetStore(SlotA, v)

SpecPointer == InitPointer /\ [][NextPointer]_vars

\* The effective offsets of the last read through the Pointer.
LastOffsets == effective_offsets(pointer, ret.offset)

LastWasRead == ret # RPending /\ ret.op = "read_u32_rel"

\* The reference walk of a chain from index i (1-based) on, in unbounded
\* arithmetic, against the target's memory as it is now: every offset but the
\* last is added and the pointer-sized value at the sum taken (8 bytes, or 4
\* bytes zero-extended), 0 ends the walk; the last offset is only added.
RECURSIVE RefWalk(_, _, _, _)
RefWalk(p, o, i, ptr) ==
    IF i > Len(o) THEN ptr
    ELSE IF i = Len(o) THEN ptr + o[i]
    ELSE LET w == IF p.is_64_bit THEN 8 ELSE 4
             v == from_ne_bytes(Pointer_read_memory_abs(p, ptr + o[i], w).buffer)
         IN  IF v = 0 THEN 0 ELSE RefWalk(p, o, i + 1, v)

\* C5: every read through a Pointer with at least one effective offset
\* resolves to the value of the reference walk over the target's memory at the
\* time of the call.
C5_ResolutionEqualsReferenceWalk ==
    (LastWasRead /\ Len(LastOffsets) >= 1) =>
        /\ ret.kind = "Ok"
        /\ ret.address = RefWalk(pointer, LastOffsets, 1, pointer.base_address)

\* C6: a walk that reads 0 at a non-terminal link ends there: that read is the
\* last dereference, the result is the sentinel 0 and there is no panic.
C6_NullLinkYieldsSentinel ==
    LastWasRead =>
        \A k \in 1..Len(ret.reads) :
            ret.reads[k].value = 0 =>
                /\ k = Len(ret.reads)
                /\ ret.kind = "Ok"
                /\ ret.address = 0

\* A walk read 0 at its first link although a second link and a last offset
\* that is not 0 were still to come.
C6_Witness ==
    /\ LastWasRead
    /\ Len(LastOffsets) = 3 /\ LastOffsets[2] # 0
    /\ Len(ret.reads) = 1 /\ ret.reads[1].value = 0
    /\ ret.kind = "Ok" /\ ret.address = 0

\* C7: with no effective offset the resolved address is the base address, with
\* exactly one it is base + that offset; neither dereferences the target.
C7_ShortChainsReadNothing ==
    LastWasRead =>
        /\ Len(LastOffsets) = 0 =>
               /\ ret.kind = "Ok" /\ ret.reads = <<>>
               /\ ret.address = pointer.base_address
        /\ Len(LastOffsets) = 1 =>
               /\ ret.kind = "Ok" /\ ret.reads = <<>>
               /\ ret.address = pointer.base_address + LastOffsets[1]

\* A created Pointer with the single stored offset 4 was read without an
\* optional offset.
C7_Witness ==
    /\ LastWasRead
    /\ pointer # PointerDefault
    /\ LastOffsets = <<4>>
    /\ ret.kind = "Ok" /\ ret.address = pointer.base_address + 4

---------------------------------------------------------------------------
(* process/refresh.rs, process/scanning.rs, process/read_write.rs: the     *)
(* attachment life cycle of a Process and its scans.                       *)

STILL_ACTIVE == 259

\* the caller's label of a scan
ErrorName == "label"

\* String::to_lowercase on the file names that occur.
to_lowercase(s) == IF s = "Game.exe" THEN "game.exe" ELSE s

\* helpers::get_file_name_from_string: the last component of the path.
get_file_name_from_string(path) == path[Len(path)]

\* Where the OS loads the main module of every program.
ImageBase == 8 * UsizeBytes

\* A module image: an opcode byte 1 followed by a 4-byte displacement d,
\* between the bytes pre and post.
Image(pre, d, post) == pre \o <<1>> \o to_ne_bytes(d, U32Bytes) \o post

\* The programs that get started: the target with a forward displacement,
\* with a backward one (d = -2 as a signed 32-bit value), with the instruction
\* at the very end of its image, the target under WOW64 with a differently
\* cased file name, another program, and the target with an image whose last
\* byte is not readable (hole: the bytes of the reported image size that
\* ReadProcessMemory cannot read).
Programs ==
    {[path |-> <<"C:", "games", "game.exe">>, wow64 |-> FALSE,
      image |-> Image(<<0>>, 2, <<0>>), hole |-> 0],
     [path |-> <<"C:", "games", "game.exe">>, wow64 |-> FALSE,
      image |-> Image(<<>>, U32Mod - 2, <<0>>), hole |-> 0],
     [path |-> <<"C:", "games", "game.exe">>, wow64 |-> FALSE,
      image |-> Image(<<0>>, 2, <<>>), hole |-> 0],
     [path |-> <<"C:", "Games", "Game.exe">>, wow64 |-> TRUE,
      image |-> Image(<<0>>, 2, <<0>>), hole |-> 0],
     [path |-> <<"C:", "other.exe">>, wow64 |-> FALSE,
      image |-> Image(<<0>>, 2, <<0>>), hole |-> 0],
     [path |-> <<"C:", "games", "game.exe">>, wow64 |-> FALSE,
      image |-> Image(<<>>, 2, <<>>), hole |-> 1]}

\* The programs that run as process pid: any as the first process, the
\* target and the other program with fully readable images as the second.
ProgramsOf(pid) ==
    IF pid = 1 THEN Programs
    ELSE {p \in Programs : p.hole = 0 /\ p.image = Image(<<0>>, 2, <<0>>)}

\* The OS calls of refresh that may fail during one call of it.
Faults ==
    {"none", "GetExitCodeProcess", "K32EnumProcesses", "OpenProcess",
     "K32GetModuleFileNameExW", "IsWow64Process", "K32EnumProcessModules",
     "K32GetModuleInformation"}

\* A mutant of EnumOrder: the processes in descending order of their ids.
EnumOrder_descending == <<2, 1>>

\* K32EnumProcesses: the running processes, in the order of their ids.
EnumOrder == <<1, 2>>

\* A mutant of GetExitCodeProcess: every process is reported as exited.
GetExitCodeProcess_reports_exit(h, fault) == ROk(0)

\* GetExitCodeProcess(handle, &exit_code)
GetExitCodeProcess(h, fault) ==
    IF fault = "GetExitCodeProcess" \/ HandlePid(h) = 0 THEN RErr(0)
    ELSE IF procs[HandlePid(h)].state = "running" THEN ROk(STILL_ACTIVE)
    ELSE ROk(0)

\* OpenProcess(.., pid): the handle value, the lowest one that is free;
\* NullHandle for a failure.
OpenProcess(hs, pid, fault) ==
    LET free == {h \in Handles : hs[h] = 0}
    IN  IF fault = "OpenProcess" \/ free = {} THEN NullHandle
        ELSE CHOOSE h \in free : \A g \in free : h <= g

CloseHandle(hs, h) == [hs EXCEPT ![h] = 0]

\* BaseReadWrite::read_with_handle on a handle of process pid.
read_with_pid(pid, address, n) ==
    LET r == ReadProcessMemoryOf(pid, address, n)
    IN  [ok |-> ~r.is_err /\ r.read_bytes = n, buffer |-> r.buffer]

\* A mutant of dump_memory: a failed read leaves the bytes it transferred as
\* the snapshot.
dump_memory_keeps_prefix(pid, module) ==
    LET r == ReadProcessMemoryOf(pid, module.base_address, module.size)
    IN  [base_address |-> module.base_address, size |-> module.size,
         memory |-> SubSeq(r.buffer, 1, r.read_bytes)]

\* A mutant of dump_memory: a failed read leaves the zeroed buffer as the
\* snapshot.
dump_memory_keeps_buffer(pid, module) ==
    [base_address |-> module.base_address, size |-> module.size,
     memory |-> read_with_pid(pid, module.base_address, module.size).buffer]

\* ProcessModule::dump_memory through a handle of process pid: the bytes of
\* the module if the one bulk read succeeds, the empty Vec of
\* ProcessModule::new otherwise.
dump_memory(pid, module) ==
    LET r == read_with_pid(pid, module.base_address, module.size)
    IN  [base_address |-> module.base_address, size |-> module.size,
         memory |-> IF r.ok THEN r.buffer ELSE <<>>]

\* Process::get_process_modules: the second K32EnumProcessModules is
\* unwrapped; a module whose information cannot be queried is left out.
get_process_modules(pid, fault) ==
    IF fault = "K32EnumProcessModules" THEN RPanic
    ELSE IF fault = "K32GetModuleInformation" THEN ROk(<<>>)
    ELSE ROk(procs[pid].modules)

\* The loop of refresh over the enumerated processes from index i on; hs is
\* the handle table so far.  The result: Ok with the pid and handle attached
\* to, Err when the loop ends, or a panic inside get_process_modules
\* (`.unwrap()` of K32EnumProcessModules, `.remove(0)` of an empty Vec).
RECURSIVE attach_loop(_, _, _)
attach_loop(i, hs, fault) ==
    IF i > Len(EnumOrder)
    THEN [kind |-> "Err", pid |-> 0, handle |-> NullHandle, handles |-> hs]
    ELSE LET pid == EnumOrder[i]
             handle == OpenProcess(hs, pid, fault)
             opened == [hs EXCEPT ![handle] = pid]
             file_name == get_file_name_from_string(procs[pid].path)
         IN  IF procs[pid].state # "running" \/ handle = NullHandle
             THEN attach_loop(i + 1, hs, fault)
             ELSE IF /\ fault # "K32GetModuleFileNameExW"
                     /\ to_lowercase(process_data.name) = to_lowercase(file_name)
                     /\ fault # "IsWow64Process"
             THEN IF get_process_modules(pid, fault).kind = "panic"
                     \/ get_process_modules(pid, fault).val = <<>>
                  THEN [kind |-> "panic", pid |-> pid, handle |-> handle,
                        handles |-> opened]
                  ELSE [kind |-> "Ok", pid |-> pid, handle |-> handle,
                        handles |-> opened]
             ELSE attach_loop(i + 1, CloseHandle(opened, handle), fault)

\* Whether some running process has the target's file name, letter case
\* ignored.
TargetRunning ==
    \E pid \in Pids :
        /\ procs[pid].state = "running"
        /\ to_lowercase(get_file_name_from_string(procs[pid].path))
               = to_lowercase(process_data.name)

\* The attached process is still running.
AttachedAlive ==
    process_data.attached /\ procs[process_data.id].state = "running"

\* The failing OS call as far as this call of refresh can meet it: an
\* Attached Process calls GetExitCodeProcess only, a Detached one does not
\* call it.
FailedCall(fault) ==
    IF process_data.attached = (fault = "GetExitCodeProcess") THEN fault
    ELSE "none"

\* What a call of refresh leaves in ret: the Result, and what the call met.
RefreshRet(kind, msg, fault) ==
    [kind |-> kind, op |-> "refresh", val |-> msg,
     was_attached |-> process_data.attached,
     alive |-> AttachedAlive,
     target_running |-> TargetRunning,
     enumerated |-> fault # "K32EnumProcesses",
     fault |-> FailedCall(fault)]

\* A mutant of exit_detected: the handle is not reset.
exit_detected_keeps_handle(pd) ==
    [pd EXCEPT !.attached = FALSE, !.id = 0, !.filename = "", !.path = <<>>]

\* The assignments of refresh when the attached process has exited.
exit_detected(pd) ==
    [pd EXCEPT !.attached = FALSE, !.id = 0, !.handle = NullHandle,
               !.filename = "", !.path = <<>>]

\* Process::refresh, with the OS call named by fault failing.
Process_refresh(fault) ==
    /\ ret.kind # "panic"
    /\ UNCHANGED <<overflow_checks, scanVars, patVars, partial_copy, procs, mem,
                   pointer>>
    /\ LET code == GetExitCodeProcess(process_data.handle, fault)
       IN  IF process_data.attached /\ (code.kind = "Err" \/ code.val # STILL_ACTIVE)
           THEN /\ process_data' = exit_detected(process_data)
                /\ ret' = RefreshRet("Err", "Process exited", fault)
                /\ UNCHANGED <<handles, main_module>>
           ELSE IF process_data.attached
           THEN /\ ret' = RefreshRet("Ok", "", fault)
                /\ UNCHANGED <<handles, process_data, main_module>>
           ELSE IF fault = "K32EnumProcesses"
           THEN /\ ret' = RefreshRet("Err", "Failed to get running processes", fault)
                /\ UNCHANGED <<handles, process_data, main_module>>
           ELSE LET r == attach_loop(1, handles, fault)
                IN  /\ handles' = r.handles
                    /\ IF r.kind = "Ok"
                       THEN /\ process_data' =
                                 [process_data EXCEPT
                                    !.id = r.pid, !.handle = r.handle,
                                    !.is_64_bit = ~procs[r.pid].wow64,
                                    !.filename =
                                        get_file_name_from_string(procs[r.pid].path),
                                    !.path = procs[r.pid].path,
                                    !.attached = TRUE]
                            /\ main_module' =
                                 RSome(dump_memory(r.pid, procs[r.pid].modules[1]))
                            /\ ret' = RefreshRet("Ok", "", fault)
                       ELSE /\ UNCHANGED <<process_data, main_module>>
                            /\ ret' = RefreshRet(r.kind,
                                              IF r.kind = "Err"
                                              THEN "Process not running" ELSE "",
                                              fault)

\* process.refresh() called by the caller itself.
Refresh(fault) ==
    /\ Process_refresh(fault)
    /\ UNCHANGED ds1

\* Process::get_main_module: `.unwrap()` of the Option.
get_main_module ==
    IF main_module.kind = "Some" THEN main_module ELSE RPanic

\* Process::read_memory_rel into a zeroed buffer of n bytes, for a Process
\* whose main module is module and whose handle refers to process pid.
Process_read_memory_rel_of(module, pid, offset, n) ==
    LET base == module.val.base_address
        address == IF offset.kind = "Some" THEN usize_add(base, offset.val)
                   ELSE RSome(base)
        r == read_with_pid(pid, address.val, n)
    IN  IF address.kind = "panic"
        THEN [kind |-> "panic", ok |-> FALSE, buffer |-> [j \in 1..n |-> 0]]
        ELSE [kind |-> "Ok", ok |-> r.ok, buffer |-> r.buffer]

\* Process::read_memory_rel of the Process as it is.
Process_read_memory_rel(offset, n) ==
    Process_read_memory_rel_of(get_main_module, HandlePid(process_data.handle),
                               offset, n)

\* usize sums of several terms, left to right.
RECURSIVE usize_sum(_, _)
usize_sum(acc, terms) ==
    IF acc.kind = "panic" \/ terms = <<>> THEN acc
    ELSE usize_sum(usize_add(acc.val, Head(terms)), Tail(terms))

\* Process::scan_abs: Ok with the Pointer, Err with the message, or a panic.
scan_abs(error_name, pattern, scan_offset, pointer_offsets) ==
    LET byte_pattern == to_pattern(pattern)
        module == get_main_module
        scan_result == scan(module.val.memory, byte_pattern.val)
        address == usize_sum(scan_result,
                             <<module.val.base_address, scan_offset>>)
    IN  IF byte_pattern.kind = "panic" \/ module.kind = "panic" THEN RPanic
        ELSE IF scan_result.kind = "panic" THEN RPanic
        ELSE IF scan_result.kind = "None"
        THEN RErr(<<"Scan failed: ", error_name>>)
        ELSE IF address.kind = "panic" THEN RPanic
        ELSE ROk(PointerNew(TRUE, address.val, pointer_offsets))

\* Process::scan_rel, for a Process whose get_main_module() gives module and
\* whose handle refers to process pid.
scan_rel_of(module, pid, error_name, pattern, scan_offset, instruction_size, pointer_offsets) ==
    LET byte_pattern == to_pattern(pattern)
        scan_result == scan(module.val.memory, byte_pattern.val)
        address == scan_result.val
        offset == usize_add(address, scan_offset)
        rd == Process_read_memory_rel_of(module, pid, RSome(offset.val), U32Bytes)
        address_value == from_ne_bytes(rd.buffer)
        result == usize_sum(RSome(module.val.base_address),
                            <<address, instruction_size, address_value>>)
    IN  IF byte_pattern.kind = "panic" \/ module.kind = "panic" THEN RPanic
        ELSE IF scan_result.kind = "panic" THEN RPanic
        ELSE IF scan_result.kind = "None"
        THEN RErr(<<"Scan failed: ", error_name>>)
        ELSE IF offset.kind = "panic" \/ rd.kind = "panic" \/ result.kind = "panic"
        THEN RPanic
        ELSE ROk(PointerNew(TRUE, result.val, pointer_offsets))

\* Process::scan_rel of the Process as it is.
scan_rel(error_name, pattern, scan_offset, instruction_size, pointer_offsets) ==
    scan_rel_of(get_main_module, HandlePid(process_data.handle), error_name,
                pattern, scan_offset, instruction_size, pointer_offsets)

\* The signatures the caller scans for: the opcode byte alone, and the opcode
\* byte followed by the four bytes of its displacement.
SigOpcode == <<"0", "1">>
SigInstruction == <<"0", "1", " ", "?", " ", "?", " ", "?", " ", "?">>
Signatures == {SigOpcode, SigInstruction}
ScanOffsets == {1}
InstructionSizes == {1 + U32Bytes}
ScanPointerOffsets == {<<4>>}

Init ==
    /\ overflow_checks \in BOOLEAN
    /\ haystack = <<>> /\ needle = <<>> /\ scan_ret = RPending
    /\ sig = <<>> /\ pattern_ret = RPending
    /\ partial_copy \in BOOLEAN
    /\ InitDetached

\* The OS starts a program as process pid.
StartProcess(pid, program) ==
    /\ ret.kind # "panic"
    /\ procs[pid].state = "absent"
    /\ procs' = [procs EXCEPT ![pid] =
                   [state |-> "running", path |-> program.path,
                    wow64 |-> program.wow64,
                    modules |-> <<[base_address |-> ImageBase,
                                   size |-> Len(program.image)
                                              + program.hole]>>]]
    /\ mem' = [mem EXCEPT ![pid] =
                 [a \in ImageBase..(ImageBase + Len(program.image) - 1) |->
                    program.image[a - ImageBase + 1]]]
    /\ UNCHANGED <<overflow_checks, ds1, scanVars, patVars, partial_copy, handles,
                   procVars, pointer, ret>>

\* Process pid exits.  While a handle to it is open its process object (and
\* its id) stays; its memory is gone.
ExitProcess(pid) ==
    /\ ret.kind # "panic"
    /\ procs[pid].state = "running"
    /\ procs' = [procs EXCEPT ![pid] =
                   IF \E h \in Handles : handles[h] = pid
                   THEN [AbsentProc EXCEPT !.state = "exited"]
                   ELSE AbsentProc]
    /\ mem' = [mem EXCEPT ![pid] = NoMemory]
    /\ UNCHANGED <<overflow_checks, ds1, scanVars, patVars, partial_copy, handles,
                   procVars, pointer, ret>>

\* A mutant of ScanAbs: the scan first captures the main module again.
ScanAbs_recapturing(pattern, scan_offset, pointer_offsets) ==
    /\ ret.kind # "panic"
    /\ main_module.kind = "Some"
    /\ main_module' = RSome(dump_memory(process_data.id,
                                        [base_address |-> main_module.val.base_address,
                                         size |-> main_module.val.size]))
    /\ LET r == scan_abs(ErrorName, pattern, scan_offset, pointer_offsets)
       IN  ret' = [kind |-> r.kind, op |-> "scan_abs", val |-> r.val,
                   pattern |-> pattern, scan_offset |-> scan_offset,
                   pointer_offsets |-> pointer_offsets]
    /\ UNCHANGED <<overflow_checks, ds1, scanVars, patVars, osVars, process_data, pointer>>

\* process.scan_abs(..): ret.val is the Pointer of an Ok, the message of an
\* Err.
ScanAbs(pattern, scan_offset, pointer_offsets) ==
    /\ ret.kind # "panic"
    /\ LET r == scan_abs(ErrorName, pattern, scan_offset, pointer_offsets)
       IN  ret' = [kind |-> r.kind, op |-> "scan_abs", val |-> r.val,
                   pattern |-> pattern, scan_offset |-> scan_offset,
                   pointer_offsets |-> pointer_offsets]
    /\ UNCHANGED <<overflow_checks, ds1, scanVars, patVars, osVars, procVars, pointer>>

\* process.scan_rel(..)
ScanRel(pattern, scan_offset, instruction_size, pointer_offsets) ==
    /\ ret.kind # "panic"
    /\ LET r == scan_rel(ErrorName, pattern, scan_offset, instruction_size,
                         pointer_offsets)
       IN  ret' = [kind |-> r.kind, op |-> "scan_rel", val |-> r.val,
                   pattern |-> pattern, scan_offset |-> scan_offset,
                   instruction_size |-> instruction_size,
                   pointer_offsets |-> pointer_offsets]
    /\ UNCHANGED <<overflow_checks, ds1, scanVars, patVars, osVars, procVars, pointer>>

Next ==
    \/ \E pid \in Pids : \E program \in ProgramsOf(pid) : StartProcess(pid, program)
    \/ \E pid \in Pids : ExitProcess(pid)
    \/ \E fault \in Faults : Refresh(fault)
    \/ \E pattern \in Signatures, scan_offset \in ScanOffsets,
          pointer_offsets \in ScanPointerOffsets :
           ScanAbs(pattern, scan_offset, pointer_offsets)
    \/ \E scan_offset \in ScanOffsets, instruction_size \in InstructionSizes,
          pointer_offsets \in ScanPointerOffsets :
           ScanRel(SigInstruction, scan_offset, instruction_size, pointer_offsets)

Spec == Init /\ [][Next]_vars

\* The snapshot and the compiled pattern of the last scan.
Snapshot == main_module.val.memory
LastPattern == to_pattern(ret.pattern).val
LastWas(op) == ret # RPending /\ ret.op = op

\* A 4-byte value as a signed 32-bit integer.
Signed32(d) == IF d >= U32Mod \div 2 THEN d - U32Mod ELSE d

\* C8: the Pointer scan_rel returns has the base address
\* module_base + m + L + d, d the 4-byte value stored at module_base + m + s
\* taken as a signed 32-bit integer.
C8_ScanRelSignedDisplacement ==
    (LastWas("scan_rel") /\ ret.kind = "Ok") =>
        LET base == main_module.val.base_address
            m == scan(Snapshot, LastPattern).val
            field == read_with_handle(process_data.handle,
                                      base + m + ret.scan_offset, U32Bytes)
            d == Signed32(from_ne_bytes(field.buffer))
        IN  field.ok =>
                /\ ret.val.base_address = base + m + ret.instruction_size + d
                /\ d < 0 => ret.val.base_address < base + m + ret.instruction_size

\* C9: when the pattern matches the snapshot, first at offset m, scan_abs
\* returns a Pointer with the base address main_module.base_address + m +
\* scan_offset and the caller's pointer_offsets.
C9_ScanAbsFirstMatch ==
    (/\ LastWas("scan_abs")
     /\ main_module.kind = "Some"
     /\ MatchIndices(Snapshot, LastPattern) # {}) =>
        /\ ret.kind = "Ok"
        /\ ret.val.base_address =
               main_module.val.base_address
                   + LeastOf(MatchIndices(Snapshot, LastPattern)) + ret.scan_offset
        /\ ret.val.offsets = ret.pointer_offsets

\* C10: a refresh that starts Detached while no running process has the
\* target's file name (and the processes could be enumerated) returns
\* "Process not running" and leaves the Process detached: not attached, handle
\* and pid zero, path and file name empty, no snapshot.
C10_NotRunningStaysDetached ==
    (/\ LastWas("refresh")
     /\ ~ret.was_attached /\ ~ret.target_running /\ ret.enumerated) =>
        /\ ret.kind = "Err" /\ ret.val = "Process not running"
        /\ ~process_data.attached
        /\ process_data.handle = NullHandle /\ process_data.id = 0
        /\ process_data.path = <<>> /\ process_data.filename = ""
        /\ main_module = RNone

C12_ExitDestroysAttachment ==
    (/\ LastWas("refresh") /\ ret.was_attached
     /\ ~ret.alive \/ ret.fault = "GetExitCodeProcess") =>
        /\ ret.kind = "Err" /\ ret.val = "Process exited"
        /\ ~process_data.attached
        /\ process_data.handle = NullHandle /\ process_data.id = 0
        /\ process_data.path = <<>> /\ process_data.filename = ""
        /\ main_module = RNone

---------------------------------------------------------------------------
(* read_write.rs: typed reads and writes through a Pointer and through the *)
(* Process, against a running target with two pointer-sized slots.         *)

\* what slot A holds at first: null, its own address, the address of slot B
AccessAValues == {0, SlotA, SlotB}
AccessBValues == {SlotA}
\* the stored offsets of the Pointer the caller creates
AccessChains == {<<>>, <<0>>, <<4>>, <<0, 0>>}
\* the widths of the typed operations: i8/u8, i32/u32/f32, i64/u64/f64
Widths == {1, U32Bytes, UsizeBytes}
\* the values written, as bit patterns of n bytes
WriteValues(n) == {v \in {1, SlotB} : v < ByteMod ^ n}

InitAccess == InitAttached(AccessAValues, AccessBValues)

\* The memory of every process is as it was set up or loaded: nothing was
\* written.
Pristine ==
    \A pid \in Pids :
        \/ mem[pid] = NoMemory
        \/ \E a \in AccessAValues, b \in AccessBValues : mem[pid] = SlotMemory(a, b)
        \/ \E program \in Programs :
              mem[pid] = [x \in ImageBase..(ImageBase + Len(program.image) - 1) |->
                            program.image[x - ImageBase + 1]]

\* The value and the address of the write just before, when it was a complete
\* transfer by the same operation kind with the same optional offset and
\* width; -1 otherwise.
WrittenBefore(op, offset, n) ==
    IF /\ ret # RPending /\ ret.op = op /\ ret.kind = "Ok" /\ ret.ok
       /\ ret.offset = offset /\ ret.len = n
    THEN [value |-> ret.value, address |-> ret.address]
    ELSE [value |-> -1, address |-> -1]

\* The memory of all processes after a write into that of the process behind
\* handle.
MemAfterWrite(handle, kind, memory) ==
    IF kind = "Ok" /\ HandlePid(handle) # 0
       /\ procs[HandlePid(handle)].state = "running"
    THEN [mem EXCEPT ![HandlePid(handle)] = memory]
    ELSE mem

\* pointer.write_T_rel(offset, value) for a type T of n bytes: to_ne_bytes,
\* then write_memory_rel, whose result is dropped.
PointerWriteRel(offset, n, value) ==
    /\ ret.kind # "panic"
    /\ Pristine
    /\ LET w == Pointer_write_memory_rel(pointer, offset, to_ne_bytes(value, n))
       IN  /\ mem' = MemAfterWrite(PointerHandle(pointer), w.kind, w.memory)
           /\ ret' = [kind |-> w.kind, op |-> "write_rel", offset |-> offset,
                      len |-> n, value |-> value, address |-> w.address,
                      reads |-> w.reads, ok |-> w.ok]
    /\ UNCHANGED <<overflow_checks, ds1, scanVars, patVars, partial_copy, procs, handles,
                   procVars, pointer>>

\* pointer.read_T_rel(offset) for a type T of n bytes.
PointerReadRel(offset, n) ==
    /\ ret.kind # "panic"
    /\ LET r == Pointer_read_memory_rel(pointer, offset, n)
           before == WrittenBefore("write_rel", offset, n)
       IN  ret' = [kind |-> r.kind, op |-> "read_rel", offset |-> offset,
                   len |-> n, value |-> typed_read(r), address |-> r.address,
                   reads |-> r.reads, ok |-> r.ok,
                   written |-> before.value, written_at |-> before.address]
    /\ UNCHANGED <<overflow_checks, ds1, scanVars, patVars, osVars, procVars, pointer>>

\* Process::write_memory_rel
Process_write_memory_rel(offset, buffer) ==
    LET base == get_main_module.val.base_address
        address == IF offset.kind = "Some" THEN usize_add(base, offset.val)
                   ELSE RSome(base)
        w == write_with_handle(process_data.handle, address.val, buffer)
    IN  IF address.kind = "panic"
        THEN [kind |-> "panic", address |-> 0, ok |-> FALSE,
              memory |-> ProcessMemory(HandlePid(process_data.handle))]
        ELSE [kind |-> "Ok", address |-> address.val, ok |-> w.ok,
              memory |-> w.memory]

\* process.write_T_rel(offset, value) for a type T of n bytes.
ProcessWriteRel(offset, n, value) ==
    /\ ret.kind # "panic"
    /\ Pristine
    /\ LET w == Process_write_memory_rel(offset, to_ne_bytes(value, n))
       IN  /\ mem' = MemAfterWrite(process_data.handle, w.kind, w.memory)
           /\ ret' = [kind |-> w.kind, op |-> "process_write_rel",
                      offset |-> offset, len |-> n, value |-> value,
                      address |-> w.address, reads |-> <<>>, ok |-> w.ok]
    /\ UNCHANGED <<overflow_checks, ds1, scanVars, patVars, partial_copy, procs, handles,
                   procVars, pointer>>

\* process.read_T_rel(offset) for a type T of n bytes.
ProcessReadRel(offset, n) ==
    /\ ret.kind # "panic"
    /\ LET r == Process_read_memory_rel(offset, n)
           before == WrittenBefore("process_write_rel", offset, n)
       IN  ret' = [kind |-> r.kind, op |-> "process_read_rel", offset |-> offset,
                   len |-> n, value |-> typed_read(r),
                   address |-> IF offset.kind = "Some"
                               THEN main_module.val.base_address + offset.val
                               ELSE main_module.val.base_address,
                   reads |-> <<>>, ok |-> r.ok,
                   written |-> before.value, written_at |-> before.address]
    /\ UNCHANGED <<overflow_checks, ds1, scanVars, patVars, osVars, procVars, pointer>>

NextAccess ==
    \/ \E o \in AccessChains : CreatePointer(SlotA, o)
    \/ \E o \in ReadOffsets, n \in Widths : \E v \in WriteValues(n) :
           PointerWriteRel(o, n, v)
    \/ \E o \in ReadOffsets, n \in Widths : PointerReadRel(o, n)
    \/ \E o \in ReadOffsets, n \in Widths : \E v \in WriteValues(n) :
           ProcessWriteRel(o, n, v)
    \/ \E o \in ReadOffsets, n \in Widths : ProcessReadRel(o, n)
    \/ \E pattern \in Signatures, scan_offset \in ScanOffsets,
          pointer_offsets \in ScanPointerOffsets :
           ScanAbs(pattern, scan_offset, pointer_offsets)
    \/ \E scan_offset \in ScanOffsets, instruction_size \in InstructionSizes,
          pointer_offsets \in ScanPointerOffsets :
           ScanRel(SigInstruction, scan_offset, instruction_size, pointer_offsets)

SpecAccess == InitAccess /\ [][NextAccess]_vars

LastWasTypedRead == ret # RPending /\ ret.op \in {"read_rel", "process_read_rel"}
LastWasTypedWrite == ret # RPending /\ ret.op \in {"write_rel", "process_write_rel"}

\* C13: in every state between operations, attached holds exactly if the
\* stored handle is not zero.
C13_AttachedIffHandle ==
    process_data.attached <=> process_data.handle # NullHandle

\* The exit of the attached process was detected: detached, the stored handle
\* is zero (the handle itself is still open in the OS).
C13_Witness ==
    /\ LastWas("refresh") /\ ret.val = "Process exited"
    /\ ~process_data.attached /\ process_data.handle = NullHandle
    /\ \E h \in Handles : handles[h] # 0

\* C14: a refresh of an Attached Process whose process is alive (and whose
\* exit code can be queried) returns Ok and changes neither the Process
\* (handle, pid, path, bitness), nor the main module and its snapshot, nor the
\* open handles, also when the enumeration of processes would fail; so any
\* number of such calls leave the same state.
C14_RefreshWhileAliveIsNoOp ==
    [][(/\ ret'.kind # "pending" /\ ret'.op = "refresh" /\ ret' # ret
        /\ ret'.was_attached /\ ret'.alive
        /\ ret'.fault # "GetExitCodeProcess") =>
           /\ ret'.kind = "Ok" /\ ret'.val = ""
           /\ UNCHANGED <<process_data, main_module, handles>>]_vars

\* An Attached Process was refreshed while its process was alive and the
\* enumeration of processes would have failed.
C14_Witness ==
    /\ LastWas("refresh") /\ ret.was_attached /\ ret.alive /\ ret.kind = "Ok"
    /\ ~ret.enumerated
    /\ AttachedAlive

\* C18: a refresh of a Detached Process that meets a failure of the process
\* enumeration, of opening the target's handle, or of the enumeration or query
\* of the target's modules returns an error other than "Process not running",
\* does not panic and stays Detached.
C18_AttachFailureIsAnError ==
    (/\ LastWas("refresh") /\ ~ret.was_attached
     /\ \/ ret.fault = "K32EnumProcesses"
        \/ /\ ret.target_running
           /\ ret.fault \in {"OpenProcess", "K32EnumProcessModules",
                             "K32GetModuleInformation"}) =>
        /\ ret.kind = "Err" /\ ret.val # "Process not running"
        /\ ~process_data.attached /\ process_data.handle = NullHandle

\* C19: the Pointer a scan of an Attached Process returns has the bitness of
\* the attached target.
C19_PointerHasTargetBitness ==
    (/\ LastWas("scan_abs") \/ LastWas("scan_rel")
     /\ ret.kind = "Ok" /\ process_data.attached) =>
        ret.val.is_64_bit = process_data.is_64_bit

\* The bytes of the target's memory where the main module lies, as far as
\* they are readable.
ModuleMemoryNow ==
    ReadProcessMemoryOf(process_data.id, main_module.val.base_address,
                        main_module.val.size).buffer

\* C15: no operation other than refresh changes the attachment: scan_abs,
\* scan_rel, create_pointer and the typed reads and writes on a Process and
\* on a Pointer leave attached, handle, pid, path (all of process_data) and
\* the main module with its snapshot as they were, whether they succeed or
\* fail.
C15_OnlyRefreshChangesAttachment ==
    [][(ret'.kind # "pending" /\ ret'.op # "refresh")
          => UNCHANGED <<process_data, main_module>>]_vars

\* A scan ran after a write had changed the main module's memory in the
\* target: the snapshot is still the one captured at attach.
C15_Witness ==
    /\ LastWas("scan_abs") /\ process_data.attached
    /\ main_module.kind = "Some"
    /\ Snapshot # ModuleMemoryNow

\* The bytes a typed write of n bytes of value v at address leaves in memory m.
MemoryWith(m, address, n, v) ==
    [a \in DOMAIN m |->
        IF a >= address /\ a < address + n
        THEN to_ne_bytes(v, n)[a - address + 1] ELSE m[a]]

\* The frame of a typed write whose transfer succeeds: exactly the n bytes at
\* the resolved address change, to the bytes of the value.
WriteFrame ==
    (LastWasTypedWrite' /\ ret'.kind = "Ok" /\ ret'.ok) =>
        /\ \A k \in 0..(ret'.len - 1) : (ret'.address + k) \in DOMAIN mem[1]
        /\ mem' = [mem EXCEPT ![1] =
                     MemoryWith(mem[1], ret'.address, ret'.len, ret'.value)]

\* C16 as stated: a typed read right after a typed write of the same width
\* through the same chain with the same optional offset, both transfers
\* succeeding, returns the value written; the write changes exactly the bytes
\* of that width at the resolved address.
C16_WriteThenReadRoundTrip ==
    /\ []((LastWasTypedRead /\ ret.written # -1 /\ ret.kind = "Ok" /\ ret.ok)
              => ret.value = ret.written)
    /\ [][WriteFrame]_vars

\* C16, amended: the same, for a read that resolves to the address the write
\* resolved to, that is, when the write did not change a link of the chain.
C16_RoundTripAtSameAddress ==
    /\ []((/\ LastWasTypedRead /\ ret.written # -1 /\ ret.kind = "Ok" /\ ret.ok
           /\ ret.address = ret.written_at)
              => ret.value = ret.written)
    /\ [][WriteFrame]_vars

\* A value of 8 bytes that is not 0 was written through a chain with a
\* dereferenced link and read back.
C16_Witness ==
    /\ LastWasTypedRead /\ ret.kind = "Ok" /\ ret.ok
    /\ ret.op = "read_rel" /\ Len(ret.reads) >= 1
    /\ ret.len = UsizeBytes
    /\ ret.written = SlotB /\ ret.value = SlotB
    /\ ret.address = ret.written_at

\* C17: a typed read whose raw read reports failure returns the zero value
\* and no error; a typed write whose raw write reports failure returns
\* normally.
C17_FailedReadYieldsZero ==
    /\ (LastWasTypedRead /\ ret.kind = "Ok" /\ ~ret.ok) => ret.value = 0
    /\ (LastWasTypedWrite /\ ret.kind = "Ok" /\ ~ret.ok) => ret.kind = "Ok"

\* C20: a read or write through a Pointer with the optional offset x accesses
\* the address that resolving the stored offsets followed by x gives, without
\* x the address that resolving the stored offsets gives; the stored base
\* address and offsets of a Pointer never change.
C20_OptionalOffsetIsAppended ==
    /\ [][(ret'.kind # "pending" /\ ret'.op \in {"read_rel", "write_rel"}) =>
             LET o == IF ret'.offset.kind = "Some"
                      THEN pointer.offsets \o <<ret'.offset.val>>
                      ELSE pointer.offsets
                 res == resolve_offsets(pointer, o)
             IN  /\ ret'.kind = res.kind
                 /\ ret'.kind = "Ok" => ret'.address = res.val
                 /\ ret'.reads = res.reads]_vars
    /\ [][pointer # PointerDefault => pointer' = pointer]_vars

\* A read through a Pointer with one stored offset and an optional offset
\* dereferenced the link at the stored offset.
C20_Witness ==
    /\ ret # RPending /\ ret.op = "read_rel" /\ ret.kind = "Ok"
    /\ pointer.offsets = <<0>> /\ ret.offset = RSome(0)
    /\ Len(ret.reads) = 1 /\ ret.reads[1].address = pointer.base_address
    /\ ret.address = ret.reads[1].value /\ ret.address # 0

\* The bulk read of the main module of the attached process, as the capture
\* made it.
CaptureRead ==
    read_with_pid(process_data.id, main_module.val.base_address,
                  main_module.val.size)

\* C21: a capture whose bulk read failed or was short left a zero-length
\* snapshot, neither the bytes transferred nor a zeroed buffer of the module's
\* size; a scan against the empty snapshot reports "Scan failed".
C21_FailedCaptureLeavesEmptySnapshot ==
    /\ (AttachedAlive /\ ~CaptureRead.ok) => Snapshot = <<>>
    /\ (/\ LastWas("scan_abs") \/ LastWas("scan_rel")
        /\ main_module.kind = "Some" /\ Snapshot = <<>>) =>
           /\ ret.kind = "Err"
           /\ ret.val = <<"Scan failed: ", ErrorName>>

\* A scan ran against the snapshot of a module whose first bytes, the
\* signature among them, could be transferred and whose last byte could not.
C21_Witness ==
    /\ LastWas("scan_abs") /\ ret.pattern = SigOpcode /\ ret.kind = "Err"
    /\ AttachedAlive /\ partial_copy
    /\ ~CaptureRead.ok /\ CaptureRead.buffer[1] # 0
    /\ Snapshot = <<>>

\* C22: a scan of a Process that holds a snapshot returns Err with the
\* message "Scan failed: " and the caller's label exactly if the compiled
\* pattern matches nowhere in the snapshot, and Ok with a Pointer otherwise,
\* also when the displacement read of scan_rel fails.
C22_ScanFailedIffNoMatch ==
    (/\ LastWas("scan_abs") \/ LastWas("scan_rel")
     /\ main_module.kind = "Some") =>
        /\ MatchIndices(Snapshot, LastPattern) = {} =>
               /\ ret.kind = "Err"
               /\ ret.val = <<"Scan failed: ", ErrorName>>
        /\ MatchIndices(Snapshot, LastPattern) # {} => ret.kind = "Ok"

\* The running processes with the target's file name, letter case ignored.
TargetPids ==
    {pid \in Pids :
        /\ procs[pid].state = "running"
        /\ to_lowercase(get_file_name_from_string(procs[pid].path))
               = to_lowercase(process_data.name)}

\* The first of them in the order of K32EnumProcesses, which lists the
\* processes by ascending id.
FirstTargetPid == CHOOSE pid \in TargetPids : \A q \in TargetPids : pid <= q

\* A step of refresh that started Detached with a target running and no OS
\* call failing (OpenProcess has a handle to give).
RefreshFindsTarget ==
    /\ ret'.kind # "pending" /\ ret'.op = "refresh" /\ procs' = procs
    /\ ~process_data.attached /\ ~ret'.was_attached
    /\ TargetPids # {} /\ ret'.fault = "none"
    /\ \E h \in Handles : handles[h] = 0

\* C23: a refresh that starts Detached while a running process has the
\* target's file name, letter case ignored, and whose OS calls succeed,
\* returns Ok and is attached to the first such process in enumeration order,
\* with a handle of that process; the handles opened for other processes are
\* closed again.
C23_AttachesToFirstMatch ==
    [][RefreshFindsTarget =>
          /\ ret'.kind = "Ok"
          /\ process_data'.attached
          /\ process_data'.id = FirstTargetPid
          /\ process_data'.handle # NullHandle
          /\ handles'[process_data'.handle] = FirstTargetPid
          /\ \A h \in Handles \ {process_data'.handle} :
                 handles'[h] = handles[h]]_vars

\* Both processes run the target, the second under another spelling of the
\* name; the Process is attached to the first.
C23_Witness ==
    /\ LastWas("refresh") /\ ~ret.was_attached /\ ret.kind = "Ok"
    /\ TargetPids = {1, 2}
    /\ procs[1].path # procs[2].path
    /\ process_data.attached /\ process_data.id = 1

C25_DetachedScanFails ==
    (/\ LastWas("scan_abs") \/ LastWas("scan_rel")
     /\ ~process_data.attached) =>
        /\ ret.kind = "Err"
        /\ ret.val = <<"Scan failed: ", ErrorName>>

\* C26: every handle that refresh opened and has not closed is the handle
\* stored in the Process: the handles of processes that do not match are
\* closed before refresh returns, and the stored handle is closed when the
\* exit is detected (as long as no call has panicked).
C26_NoHandleLeak ==
    ret.kind # "panic" =>
        \A h \in Handles : handles[h] # 0 => h = process_data.handle

----------------------------------------------------------------------------
(* A Pointer of the Process over attach, exit and attach again. *)

\* where the caller's Pointer points: the first byte of the main module
SharedBase == ImageBase

\* the programs that get started here: the target and another program
SharedPrograms ==
    {program \in Programs :
        program.image = Image(<<0>>, 2, <<0>>) /\ ~program.wow64}

\* the OS calls that may fail here
SharedFaults == {"none", "GetExitCodeProcess"}

\* A Process not yet attached; the transfers here are of one byte, which is
\* never transferred in part, and no address sum here overflows.
InitShared ==
    /\ Init
    /\ ~overflow_checks
    /\ ~partial_copy

NextShared ==
    \/ \E pid \in Pids : \E program \in SharedPrograms : StartProcess(pid, program)
    \/ \E pid \in Pids : ExitProcess(pid)
    \/ \E fault \in SharedFaults : Refresh(fault)
    \/ CreatePointer(SharedBase, <<>>)
    \/ \E o \in ReadOffsets : PointerReadRel(o, 1)
    \/ \E o \in ReadOffsets : PointerWriteRel(o, 1, 1)

SpecShared == InitShared /\ [][NextShared]_vars

\* C27: every read and write through a Pointer that a Process created goes
\* through the handle stored in the Process at that moment: it transfers what
\* a transfer with that handle transfers, fails and yields the zero value
\* while the Process is Detached, and leaves the Pointer's base address and
\* offsets as they are.
C27_PointerUsesCurrentHandle ==
    [][(/\ ret'.kind = "Ok" /\ ret'.op \in {"read_rel", "write_rel"}
        /\ ret' # ret /\ pointer.process_data = "shared") =>
           /\ pointer' = pointer
           /\ ret'.op = "read_rel" =>
                 LET r == read_with_handle(process_data.handle, ret'.address,
                                           ret'.len)
                 IN  /\ ret'.ok = r.ok
                     /\ ret'.value = from_ne_bytes(r.buffer)
           /\ ret'.op = "write_rel" =>
                 LET w == write_with_handle(process_data.handle, ret'.address,
                                            to_ne_bytes(ret'.value, ret'.len))
                 IN  /\ ret'.ok = w.ok
                     /\ mem' = MemAfterWrite(process_data.handle, "Ok", w.memory)
           /\ ~process_data.attached =>
                 /\ ~ret'.ok /\ mem' = mem
                 /\ ret'.op = "read_rel" => ret'.value = 0
      ]_vars

\* A read through the Pointer succeeded with the handle of a second
\* attachment while the handle of the first is still open.
C27_Witness ==
    /\ ret # RPending /\ ret.op = "read_rel" /\ ret.kind = "Ok" /\ ret.ok
    /\ pointer.process_data = "shared"
    /\ process_data.attached /\ process_data.handle = 2
    /\ handles[1] # 0 /\ handles[1] # handles[2]

\* C28: a walk whose read of a non-terminal link fails decodes the zeroed
\* buffer: that read is the last dereference, the result is the sentinel 0
\* and there is no panic; the walk never goes on from another value.
C28_FailedLinkReadYieldsSentinel ==
    LastWasRead =>
        \A k \in 1..Len(ret.reads) :
            ~ret.reads[k].ok =>
                /\ ret.reads[k].value = 0
                /\ k = Len(ret.reads)
                /\ ret.kind = "Ok"
                /\ ret.address = 0

----------------------------------------------------------------------------
(* examples/dsr.rs: the poll loop of Ds1. *)

\* the two signatures of the example: an instruction with its displacement,
\* and one that has the byte 0 before its opcode
SigGameDataMan == SigInstruction
SigAiTimer == <<"0", "0", " ", "0", "1", " ", "?", " ", "?", " ", "?", " ", "?">>

\* The two scans of Ds1::refresh, for a Process whose get_main_module()
\* gives module and whose handle has the value handle and refers to process
\* pid.
ds1_scans(module, handle, pid) ==
    [game_data_man |-> scan_rel_of(module, pid, "GameDataMan", SigGameDataMan,
                                   1, 1 + U32Bytes, <<0>>),
     ai_timer |-> scan_rel_of(module, pid, "AI Timer", SigAiTimer,
                              2, 2 + U32Bytes, <<0>>),
     attachment |-> handle]

\* The Pointer of a successful scan, with the attachment it was scanned from.
Scanned(r, attachment) == [pointer |-> r.val, attachment |-> attachment]

\* What Ds1 d holds after the two assignments, each scan followed by `?`.
ds1_assign(d, scans) ==
    LET g == scans.game_data_man
        a == scans.ai_timer
    IN  IF g.kind # "Ok" THEN [d EXCEPT !.result = g.kind]
        ELSE IF a.kind # "Ok"
        THEN [d EXCEPT !.game_data_man = Scanned(g, scans.attachment),
                       !.result = a.kind]
        ELSE [d EXCEPT !.game_data_man = Scanned(g, scans.attachment),
                       !.ai_timer = Scanned(a, scans.attachment),
                       !.result = "Ok"]

\* Ds1::refresh, one tick of the loop in main: the scans run only in the
\* branch taken when the Process is not attached, after its refresh returned
\* Ok.
Ds1_refresh(fault) ==
    /\ ds1.result # "panic"
    /\ Process_refresh(fault)
    /\ ds1' = IF process_data.attached \/ ret'.kind # "Ok"
              THEN [ds1 EXCEPT !.result = ret'.kind]
              ELSE ds1_assign(ds1,
                              ds1_scans(IF main_module'.kind = "Some"
                                        THEN main_module' ELSE RPanic,
                                        process_data'.handle,
                                        IF process_data'.handle \in Handles
                                        THEN handles'[process_data'.handle]
                                        ELSE 0))

NextPoll ==
    \/ \E pid \in Pids : \E program \in ProgramsOf(pid) : StartProcess(pid, program)
    \/ \E pid \in Pids : ExitProcess(pid)
    \/ \E fault \in Faults : Ds1_refresh(fault)

SpecPoll == Init /\ [][NextPoll]_vars

\* C29: whenever the Process is attached after a tick, both Pointers of Ds1
\* come from successful scans of the snapshot of this attachment.
C29_AttachedMeansScanned ==
    (process_data.attached /\ ds1.result # "panic") =>
        /\ ds1.game_data_man.attachment = process_data.handle
        /\ ds1.ai_timer.attachment = process_data.handle
        /\ ds1.game_data_man.pointer # PointerDefault
        /\ ds1.ai_timer.pointer # PointerDefault


---------------------------------------------------------------------------
(* memory/base_read_write.rs: read_with_handle and write_with_handle with  *)
(* a MemoryType. With Direct the code runs inside the target, whose        *)
(* address space is its own: both memory types act on the memory of        *)
(* process SelfPid.                                                        *)

MemoryTypes == {"Win32Api", "Direct"}

\* The process the handle of the caller refers to; with MemoryType::Direct
\* also the process this code runs in.
SelfPid == 1

\* The mapped region of that process: two pointer-sized words.
RegionBase == 2 * UsizeBytes
RegionSize == 2 * UsizeBytes
Region == RegionBase..(RegionBase + RegionSize - 1)

\* size_of::<&[u8]>(): a data pointer and a length.
FatPointerBytes == 2 * UsizeBytes

\* The outcome of an access that touches an unmapped address of the own
\* address space: the process is stopped by an access violation.
RFault == [kind |-> "fault", val |-> 0]

\* BaseReadWrite::read_with_handle(handle, memory_type, address, buffer) for
\* a zeroed buffer of n bytes: kind is "Ok" when the call returns, ok is the
\* bool it returns.
BaseReadWrite_read_with_handle(handle, memory_type, address, n) ==
    IF memory_type = "Win32Api"
    THEN LET r == ReadProcessMemory(handle, address, n)
         IN  [kind |-> "Ok", ok |-> ~r.is_err /\ r.read_bytes = n,
              buffer |-> r.buffer]
    ELSE LET m == ProcessMemory(SelfPid)
         IN  IF \A j \in 0..(n - 1) : (address + j) \in DOMAIN m
             THEN [kind |-> "Ok", ok |-> TRUE,
                   buffer |-> [j \in 1..n |-> m[address + j - 1]]]
             ELSE [kind |-> "fault", ok |-> FALSE, buffer |-> [j \in 1..n |-> 0]]

\* The bytes of a `&[u8]` for a buffer of n bytes at buffer_at: the data
\* pointer and the length, in the order the compiler lays them out.
fat_pointer_bytes(buffer_at, n, layout) ==
    IF layout = "ptr_len"
    THEN to_ne_bytes(buffer_at, UsizeBytes) \o to_ne_bytes(n, UsizeBytes)
    ELSE to_ne_bytes(n, UsizeBytes) \o to_ne_bytes(buffer_at, UsizeBytes)

\* What `ptr::write_volatile(address as *mut &[u8], buffer)` stores at
\* address: the value of the reference buffer, not the bytes it refers to.
write_volatile_slice_ref(buffer, buffer_at, layout) ==
    fat_pointer_bytes(buffer_at, Len(buffer), layout)

\* BaseReadWrite::write_with_handle(handle, memory_type, address, buffer);
\* buffer_at is where the buffer of the caller lies, layout the field order
\* of a slice reference. memory is the memory of SelfPid afterwards.
BaseReadWrite_write_with_handle(handle, memory_type, address, buffer, buffer_at, layout) ==
    IF memory_type = "Win32Api"
    THEN LET w == WriteProcessMemory(handle, address, buffer)
         IN  [kind |-> "Ok", ok |-> ~w.is_err /\ w.wrote_bytes = Len(buffer),
              memory |-> IF HandlePid(handle) = SelfPid THEN w.memory
                         ELSE ProcessMemory(SelfPid)]
    ELSE LET m == ProcessMemory(SelfPid)
             stored == write_volatile_slice_ref(buffer, buffer_at, layout)
         IN  IF \A j \in 0..(Len(stored) - 1) : (address + j) \in DOMAIN m
             THEN [kind |-> "Ok", ok |-> TRUE,
                   memory |-> [a \in DOMAIN m |->
                                 IF a >= address /\ a < address + Len(stored)
                                 THEN stored[a - address + 1] ELSE m[a]]]
             ELSE [kind |-> "fault", ok |-> FALSE, memory |-> m]

\* What the callers pass: the handle of the attachment or no handle; an
\* address at the start of the region and two bytes before its end; one byte
\* or a 32-bit word.
TypedHandles == {1, NullHandle}
TypedAddresses == {RegionBase, RegionBase + RegionSize - 2}
TypedBuffers == {<<1>>, <<1, 2, 3, 0>>}
BufferPlaces == {5 * UsizeBytes, 6 * UsizeBytes + 1}
Layouts == {"ptr_len", "len_ptr"}

\* The target runs with its region mapped, byte x holding x modulo ByteMod;
\* the Process is attached to it.
InitTyped ==
    /\ overflow_checks = FALSE
    /\ haystack = <<>> /\ needle = <<>> /\ scan_ret = RPending
    /\ sig = <<>> /\ pattern_ret = RPending
    /\ partial_copy \in BOOLEAN
    /\ procs = [p \in Pids |->
                  IF p = SelfPid
                  THEN [state |-> "running", path |-> <<"C:", TargetName>>,
                        wow64 |-> FALSE,
                        modules |-> <<[base_address |-> RegionBase,
                                       size |-> RegionSize]>>]
                  ELSE AbsentProc]
    /\ mem = [p \in Pids |-> IF p = SelfPid THEN [x \in Region |-> x % ByteMod]
                             ELSE NoMemory]
    /\ handles = [h \in Handles |-> IF h = 1 THEN SelfPid ELSE 0]
    /\ process_data = [name |-> TargetName, attached |-> TRUE, id |-> SelfPid,
                       handle |-> 1, is_64_bit |-> TRUE,
                       filename |-> TargetName, path |-> <<"C:", TargetName>>]
    /\ main_module = RSome([base_address |-> RegionBase, size |-> RegionSize,
                            memory |-> [j \in 1..RegionSize |->
                                          (RegionBase + j - 1) % ByteMod]])
    /\ pointer = PointerDefault
    /\ ret = RPending
    /\ ds1 = Ds1New

\* A call of read_with_handle; an access violation ends the process.
ReadWithHandle(handle, memory_type, address, n) ==
    /\ ret.kind # "fault"
    /\ LET r == BaseReadWrite_read_with_handle(handle, memory_type, address, n)
       IN  ret' = [kind |-> r.kind, op |-> "read_with_handle",
                   handle |-> handle, memory_type |-> memory_type,
                   address |-> address, buffer |-> r.buffer, ok |-> r.ok,
                   transferred |-> IF memory_type = "Win32Api"
                                   THEN ReadProcessMemory(handle, address, n).read_bytes
                                   ELSE n]
    /\ UNCHANGED <<overflow_checks, ds1, scanVars, patVars, osVars, procVars, pointer>>

\* A call of write_with_handle.
WriteWithHandle(handle, memory_type, address, buffer, buffer_at, layout) ==
    /\ ret.kind # "fault"
    /\ LET w == BaseReadWrite_write_with_handle(handle, memory_type, address,
                                                buffer, buffer_at, layout)
       IN  /\ mem' = [mem EXCEPT ![SelfPid] = w.memory]
           /\ ret' = [kind |-> w.kind, op |-> "write_with_handle",
                      handle |-> handle, memory_type |-> memory_type,
                      address |-> address, buffer |-> buffer, ok |-> w.ok,
                      transferred |->
                          IF memory_type = "Win32Api"
                          THEN WriteProcessMemory(handle, address, buffer).wrote_bytes
                          ELSE Len(buffer)]
    /\ UNCHANGED <<overflow_checks, ds1, scanVars, patVars, partial_copy, procs, handles,
                   procVars, pointer>>

NextTyped ==
    \/ \E handle \in TypedHandles, memory_type \in MemoryTypes,
          address \in TypedAddresses, buffer \in TypedBuffers :
            ReadWithHandle(handle, memory_type, address, Len(buffer))
    \/ \E handle \in TypedHandles, memory_type \in MemoryTypes,
          address \in TypedAddresses, buffer \in TypedBuffers,
          buffer_at \in BufferPlaces, layout \in Layouts :
            WriteWithHandle(handle, memory_type, address, buffer, buffer_at, layout)

SpecTyped == InitTyped /\ [][NextTyped]_vars

\* The memory m with the bytes of buffer at address and every other byte as
\* it was.
MemoryWithBytes(m, address, buffer) ==
    [a \in DOMAIN m |-> IF a >= address /\ a < address + Len(buffer)
                        THEN buffer[a - address + 1] ELSE m[a]]

\* C30: with either memory type a write_with_handle that returns true has
\* stored the bytes of the buffer at the address and changed nothing else, a
\* read_with_handle of the same length at the same address right after it
\* returns true with these bytes, and with Win32Api both return true exactly
\* when the number of bytes transferred is the length of the buffer.
C30_WriteStoresBufferForBothTypes ==
    [][/\ (ret'.kind = "Ok" /\ ret'.op = "write_with_handle" /\ ret'.ok) =>
              mem'[SelfPid] =
                  MemoryWithBytes(mem[SelfPid], ret'.address, ret'.buffer)
       /\ (/\ ret.kind = "Ok" /\ ret.op = "write_with_handle" /\ ret.ok
           /\ ret'.kind = "Ok" /\ ret'.op = "read_with_handle"
           /\ ret'.memory_type = ret.memory_type /\ ret'.handle = ret.handle
           /\ ret'.address = ret.address
           /\ Len(ret'.buffer) = Len(ret.buffer)) =>
              ret'.ok /\ ret'.buffer = ret.buffer
       /\ (/\ ret'.kind = "Ok"
           /\ ret'.op \in {"read_with_handle", "write_with_handle"}
           /\ ret'.memory_type = "Win32Api") =>
              (ret'.ok <=> ret'.transferred = Len(ret'.buffer))]_vars

=============================================================================
